---- MODULE Spec2Model ----
(***************************************************************************)
(* temp.py: a Qt window that polls a serial port every 100 ms, parses one  *)
(* "field1,temperature,rh,extra" record per tick, derives absolute         *)
(* humidity, dew point and a 20 s moving average, keeps six parallel       *)
(* deques of bounded length and rescales four matplotlib axes.             *)
(*                                                                         *)
(* Time is in whole seconds.  Temperatures and humidities are the integers *)
(* the record tokens stand for; a moving average is an exact fraction.     *)
(* Absolute humidity and dew point are transcendental, so they are kept as *)
(* terms <<name, temp, rh>> and the limits of their axes as terms over the *)
(* visible values.  The matplotlib calls (set_data, set_xlim, set_ylim,    *)
(* draw) are total and only record what they are given.  Records carrying  *)
(* the float literals nan and inf are outside the modelled inputs.         *)
(***************************************************************************)
EXTENDS Integers, Sequences, FiniteSets, TLC

\* ---------------------------------------------------------------- bounds
\* self.max_points = 4 * 60 * 60 in the source; the deques are modelled
\* with this many slots so that eviction happens within a short run.
max_points == 2

\* ------------------------------------------------------------- constants
\* timedelta(seconds=20), the moving-average window
twenty_sec == 20
\* self.timer.start(100) polls; the axis paddings and clamps of
\* adjust_y_axis_ranges
temp_pad == 1
rh_pad == 5
rh_floor == 0
rh_ceil == 100

\* the value of a clock read that was never made
NoTime == 0 - 1

\* ------------------------------------------------------------ wire input
\* A raw line is a sequence of chunks; "," is the separator, "\n" the
\* terminator, "0xFF" a byte that is not valid UTF-8.
GoodLines ==
  { <<"12:00:00", ",", "20", ",", "50", ",", "0", "\n">>,
    <<"12:00:01", ",", "20", ",", "50", ",", "0", "\n">>,
    <<"12:00:00", ",", "22", ",", "50", ",", "0", "\n">> }

\* a well-formed record whose humidity is above 100
HighRhLines == { <<"12:00:00", ",", "22", ",", "120", ",", "0", "\n">> }

\* well-formed records whose humidity is not positive
LowRhLines ==
  { <<"12:00:00", ",", "22", ",", "0", ",", "0", "\n">>,
    <<"12:00:00", ",", "20", ",", "-5", ",", "0", "\n">> }

\* field 2 or field 3 is not a number
NonNumericLines ==
  { <<"12:00:00", ",", "abc", ",", "55", ",", "x", "\n">>,
    <<"12:00:00", ",", "20", ",", "abc", ",", "0", "\n">> }

\* three fields, five fields, an empty line
WrongCountLines ==
  { <<"12:00:00", ",", "20", ",", "50", "\n">>,
    <<"12:00:00", ",", "20", ",", "50", ",", "0", ",", "0", "\n">>,
    <<"\n">> }

UndecodableLines ==
  { <<"12:00:00", ",", "0xFF", ",", "50", ",", "0", "\n">> }

\* bytes.decode('utf-8'): raises UnicodeDecodeError on an invalid byte
DecodeRaises(raw) == \E i \in 1..Len(raw) : raw[i] = "0xFF"

Whitespace == {"\n", " "}

\* str.strip(): drop leading and trailing whitespace
RECURSIVE LStrip(_)
LStrip(s) ==
  IF s # <<>> /\ Head(s) \in Whitespace THEN LStrip(Tail(s)) ELSE s

RECURSIVE RStrip(_)
RStrip(s) ==
  IF s # <<>> /\ s[Len(s)] \in Whitespace
    THEN RStrip(SubSeq(s, 1, Len(s) - 1))
    ELSE s

Strip(s) == RStrip(LStrip(s))

\* str.split(','): the fields between separators; always at least one field
RECURSIVE SplitFrom(_, _, _)
SplitFrom(s, i, cur) ==
  IF i > Len(s) THEN <<cur>>
  ELSE IF s[i] = "," THEN <<cur>> \o SplitFrom(s, i + 1, <<>>)
  ELSE SplitFrom(s, i + 1, Append(cur, s[i]))

Split(s) == SplitFrom(s, 1, <<>>)

\* float(str): the number a token denotes
FloatValue ==
  [tok \in {"20", "22", "50", "55", "120", "0", "-5"} |->
     CASE tok = "20" -> 20
       [] tok = "22" -> 22
       [] tok = "50" -> 50
       [] tok = "55" -> 55
       [] tok = "120" -> 120
       [] tok = "0" -> 0
       [] tok = "-5" -> 0 - 5]

\* float(field) raises ValueError unless the field is one numeric token
FloatRaises(field) == ~(Len(field) = 1 /\ field[1] \in DOMAIN FloatValue)

Float(field) == FloatValue[field[1]]

\* ------------------------------------------------------------- fractions
Abs(x) == IF x < 0 THEN 0 - x ELSE x

RECURSIVE GCD(_, _)
GCD(a, b) == IF b = 0 THEN a ELSE GCD(b, a % b)

\* n/d in lowest terms, d > 0
Frac(n, d) ==
  LET g == GCD(Abs(n), d) IN [n |-> n \div g, d |-> d \div g]

FracLess(x, y) == x.n * y.d < y.n * x.d

\* x + k for an integer k: still in lowest terms
FracAdd(x, k) == [n |-> x.n + k * x.d, d |-> x.d]

FracOfInt(k) == [n |-> k, d |-> 1]

RECURSIVE Sum(_)
Sum(s) == IF s = <<>> THEN 0 ELSE Head(s) + Sum(Tail(s))

\* ---------------------------------------------------------------- physics
\* math.log(rh/100.0) raises ValueError for rh <= 0
calculate_dew_point_raises(temp, rh) == rh <= 0

calculate_dew_point(temp, rh) == <<"dew_point", temp, rh>>

calculate_absolute_humidity(temp, rh) == <<"absolute_humidity", temp, rh>>

\* ------------------------------------------------------------------ state
VARIABLES
  timestamps,      \* self.timestamps
  temperatures,    \* self.temperatures
  temp_avg,        \* self.temp_avg
  rel_humidities,  \* self.rel_humidities
  abs_humidities,  \* self.abs_humidities
  dew_points,      \* self.dew_points
  time_range,      \* self.time_range, seconds
  timer_active,    \* self.timer is running
  ser_open,        \* self.ser is open
  line_data,       \* what set_data last gave each of the five plot lines
  xlim,            \* x-limits of ax1..ax4, <<>> until first set
  ylim,            \* y-limits of ax1..ax4, <<>> until first set
  pc,              \* where the single GUI thread is
  calls,           \* timer/transport/event calls made by closeEvent, in order
  last             \* the handler that ran last, its inputs and how it ended

series == <<timestamps, temperatures, temp_avg, rel_humidities,
            abs_humidities, dew_points>>

vars == <<timestamps, temperatures, temp_avg, rel_humidities, abs_humidities,
          dew_points, time_range, timer_active, ser_open, line_data, xlim,
          ylim, pc, calls, last>>

Axes == 1..4

\* a full deque that drops its newest item instead of its oldest
DequeAppend_DropsNewest(q, x) ==
  IF max_points = 0 THEN <<>>
  ELSE IF Len(q) >= max_points THEN Append(SubSeq(q, 1, Len(q) - 1), x)
  ELSE Append(q, x)

\* deque(maxlen=self.max_points).append: a full deque drops its oldest item
DequeAppend(q, x) ==
  IF max_points = 0 THEN <<>>
  ELSE IF Len(q) >= max_points THEN Append(Tail(q), x)
  ELSE Append(q, x)

Min2(a, b) == IF a < b THEN a ELSE b
Max2(a, b) == IF a > b THEN a ELSE b

Range(s) == {s[i] : i \in 1..Len(s)}

\* [v for v, ts in zip(vals, tss) if ts > since], from index i on
RECURSIVE RecentFrom(_, _, _, _)
RecentFrom(vals, tss, since, i) ==
  IF i > Len(vals) \/ i > Len(tss) THEN <<>>
  ELSE IF tss[i] > since
    THEN <<vals[i]>> \o RecentFrom(vals, tss, since, i + 1)
  ELSE RecentFrom(vals, tss, since, i + 1)

\* the comparison written ts >= since
Recent_Inclusive(vals, tss, since) == RecentFrom(vals, tss, since - 1, 1)

Recent(vals, tss, since) == RecentFrom(vals, tss, since, 1)

\* [v for v, ts in zip(vals, tss) if ts >= start_time], from index i on
RECURSIVE VisibleFrom(_, _, _, _)
VisibleFrom(vals, tss, start_time, i) ==
  IF i > Len(vals) \/ i > Len(tss) THEN <<>>
  ELSE IF tss[i] >= start_time
    THEN <<vals[i]>> \o VisibleFrom(vals, tss, start_time, i + 1)
  ELSE VisibleFrom(vals, tss, start_time, i + 1)

\* the comparison written ts > start_time
Visible_Strict(vals, tss, start_time) ==
  VisibleFrom(vals, tss, start_time + 1, 1)

Visible(vals, tss, start_time) == VisibleFrom(vals, tss, start_time, 1)

\* the average taken over the readings before the new one
MovingAverage_Prior(temps, tss, temp, current_time) ==
  LET twenty_sec_ago == current_time - twenty_sec
      recent_temps == Recent(SubSeq(temps, 1, Len(temps) - 1), tss,
                             twenty_sec_ago)
  IN IF recent_temps # <<>>
       THEN Frac(Sum(recent_temps), Len(recent_temps))
       ELSE FracOfInt(temp)

\* the 20-second moving average stored for a reading taken at current_time
MovingAverage(temps, tss, temp, current_time) ==
  LET twenty_sec_ago == current_time - twenty_sec
      recent_temps == Recent(temps, tss, twenty_sec_ago)
  IN IF recent_temps # <<>>
       THEN Frac(Sum(recent_temps), Len(recent_temps))
       ELSE FracOfInt(temp)

\* min() and max() of a non-empty list
RECURSIVE IntMin(_)
IntMin(s) ==
  IF Len(s) = 1 THEN s[1] ELSE Min2(s[1], IntMin(Tail(s)))

RECURSIVE IntMax(_)
IntMax(s) ==
  IF Len(s) = 1 THEN s[1] ELSE Max2(s[1], IntMax(Tail(s)))

FracMin2(x, y) == IF FracLess(y, x) THEN y ELSE x
FracMax2(x, y) == IF FracLess(x, y) THEN y ELSE x

RECURSIVE FracMin(_)
FracMin(s) ==
  IF Len(s) = 1 THEN s[1] ELSE FracMin2(s[1], FracMin(Tail(s)))

RECURSIVE FracMax(_)
FracMax(s) ==
  IF Len(s) = 1 THEN s[1] ELSE FracMax2(s[1], FracMax(Tail(s)))

\* the temperature limits taken over the temperatures alone
TempLimits_TempsOnly(visible_temps, visible_temp_avgs) ==
  <<FracAdd(FracOfInt(IntMin(visible_temps)), 0 - temp_pad),
    FracAdd(FracOfInt(IntMax(visible_temps)), temp_pad)>>

\* the limits set_ylim is given for each axis
TempLimits(visible_temps, visible_temp_avgs) ==
  LET temp_min == FracMin2(FracOfInt(IntMin(visible_temps)),
                           FracMin(visible_temp_avgs))
      temp_max == FracMax2(FracOfInt(IntMax(visible_temps)),
                           FracMax(visible_temp_avgs))
  IN <<FracAdd(temp_min, 0 - temp_pad), FracAdd(temp_max, temp_pad)>>

RhLimits(visible_rhs) ==
  <<Max2(rh_floor, IntMin(visible_rhs) - rh_pad),
    Min2(rh_ceil, IntMax(visible_rhs) + rh_pad)>>

AhLimits(visible_ahs) ==
  <<<<"min", Range(visible_ahs), "- 0.5">>,
    <<"max", Range(visible_ahs), "+ 0.5">>>>

DpLimits(visible_dps) ==
  <<<<"min", Range(visible_dps), "- 1">>,
    <<"max", Range(visible_dps), "+ 1">>>>

\* adjust_y_axis_ranges with min() called before the list is tested
adjust_y_axis_ranges_Unguarded(yl, tss, temps, avgs, rhs, ahs, dps, range, now) ==
  LET start_time == now - range
      visible_temps == Visible(temps, tss, start_time)
      visible_temp_avgs == Visible(avgs, tss, start_time)
      visible_rhs == Visible(rhs, tss, start_time)
      visible_ahs == Visible(ahs, tss, start_time)
      visible_dps == Visible(dps, tss, start_time)
  IN IF visible_temps = <<>> \/ visible_temp_avgs = <<>>
       THEN [raised |-> TRUE, ylim |-> yl]
       ELSE [raised |-> FALSE,
             ylim |-> << TempLimits(visible_temps, visible_temp_avgs),
                         RhLimits(visible_rhs),
                         AhLimits(visible_ahs),
                         DpLimits(visible_dps) >>]

\* adjust_y_axis_ranges, reading the clock as `now`: the new y-limits, or
\* raised when min() is given an empty list
adjust_y_axis_ranges(yl, tss, temps, avgs, rhs, ahs, dps, range, now) ==
  LET start_time == now - range
      visible_temps == Visible(temps, tss, start_time)
      visible_temp_avgs == Visible(avgs, tss, start_time)
      visible_rhs == Visible(rhs, tss, start_time)
      visible_ahs == Visible(ahs, tss, start_time)
      visible_dps == Visible(dps, tss, start_time)
  IN IF visible_temps # <<>> /\ visible_temp_avgs = <<>>
       THEN [raised |-> TRUE, ylim |-> yl]
       ELSE [raised |-> FALSE,
             ylim |-> << IF visible_temps # <<>>
                           THEN TempLimits(visible_temps, visible_temp_avgs)
                           ELSE yl[1],
                         IF visible_rhs # <<>>
                           THEN RhLimits(visible_rhs) ELSE yl[2],
                         IF visible_ahs # <<>>
                           THEN AhLimits(visible_ahs) ELSE yl[3],
                         IF visible_dps # <<>>
                           THEN DpLimits(visible_dps) ELSE yl[4] >>]

\* item 1 given timedelta(hours=5) for timedelta(minutes=5)
TimeRange_HoursForMinutes(index) ==
  IF index = 0 THEN 60
  ELSE IF index = 1 THEN 5 * 60 * 60
  ELSE IF index = 2 THEN 20 * 60
  ELSE IF index = 3 THEN 60 * 60
  ELSE 4 * 60 * 60

\* the timedelta update_time_range stores for a selector index, in seconds
TimeRange(index) ==
  IF index = 0 THEN 60
  ELSE IF index = 1 THEN 5 * 60
  ELSE IF index = 2 THEN 20 * 60
  ELSE IF index = 3 THEN 60 * 60
  ELSE 4 * 60 * 60

SetXlim(lo, hi) == [ax \in Axes |-> <<lo, hi>>]

\* the five set_data calls of update_plot
SetData(tss, temps, avgs, rhs, ahs, dps) ==
  [temp_line |-> <<tss, temps>>,
   temp_avg_line |-> <<tss, avgs>>,
   rh_line |-> <<tss, rhs>>,
   ah_line |-> <<tss, ahs>>,
   dp_line |-> <<tss, dps>>]

\* a tick that changes nothing past the guard but still moves the x-axes
Untouched_MovesXlim(result) ==
  [result |-> result, t1 |-> NoTime, t2 |-> NoTime, drew |-> FALSE,
   timestamps |-> timestamps, temperatures |-> temperatures,
   temp_avg |-> temp_avg, rel_humidities |-> rel_humidities,
   abs_humidities |-> abs_humidities, dew_points |-> dew_points,
   line_data |-> line_data, xlim |-> SetXlim(0 - time_range, 0),
   ylim |-> ylim]

\* What update_plot leaves behind when nothing past the guard changes state
Untouched(result) ==
  [result |-> result, t1 |-> NoTime, t2 |-> NoTime, drew |-> FALSE,
   timestamps |-> timestamps, temperatures |-> temperatures,
   temp_avg |-> temp_avg, rel_humidities |-> rel_humidities,
   abs_humidities |-> abs_humidities, dew_points |-> dew_points,
   line_data |-> line_data, xlim |-> xlim, ylim |-> ylim]

\* the field count tested with len(parts) >= 4
Parse_AtLeastFour(raw) ==
  IF DecodeRaises(raw) THEN [result |-> "raised", temp |-> 0, rh |-> 0]
  ELSE
    LET parts == Split(Strip(raw)) IN
    IF Len(parts) < 4 THEN [result |-> "skip", temp |-> 0, rh |-> 0]
    ELSE IF FloatRaises(parts[2]) \/ FloatRaises(parts[3])
      THEN [result |-> "raised", temp |-> 0, rh |-> 0]
    ELSE [result |-> "parsed", temp |-> Float(parts[2]),
          rh |-> Float(parts[3])]

\* temp and rh unpacked from each other's field
Parse_SwappedFields(raw) ==
  IF DecodeRaises(raw) THEN [result |-> "raised", temp |-> 0, rh |-> 0]
  ELSE
    LET parts == Split(Strip(raw)) IN
    IF Len(parts) # 4 THEN [result |-> "skip", temp |-> 0, rh |-> 0]
    ELSE IF FloatRaises(parts[2]) \/ FloatRaises(parts[3])
      THEN [result |-> "raised", temp |-> 0, rh |-> 0]
    ELSE [result |-> "parsed", temp |-> Float(parts[3]),
          rh |-> Float(parts[2])]

\* Lines 96-102 of update_plot: decode, strip, split, count, float
Parse(raw) ==
  IF DecodeRaises(raw) THEN [result |-> "raised", temp |-> 0, rh |-> 0]
  ELSE
    LET parts == Split(Strip(raw)) IN
    IF Len(parts) # 4 THEN [result |-> "skip", temp |-> 0, rh |-> 0]
    ELSE IF FloatRaises(parts[2]) \/ FloatRaises(parts[3])
      THEN [result |-> "raised", temp |-> 0, rh |-> 0]
    ELSE [result |-> "parsed", temp |-> Float(parts[2]),
          rh |-> Float(parts[3])]

\* update_plot past the parse with no append to self.temp_avg
Ingest_AverageNotStored(temp, rh, current_time, now2) ==
  LET ah == calculate_absolute_humidity(temp, rh)
      dp == calculate_dew_point(temp, rh)
      tss == DequeAppend(timestamps, current_time)
      temps == DequeAppend(temperatures, temp)
      rhs == DequeAppend(rel_humidities, rh)
      ahs == DequeAppend(abs_humidities, ah)
      dps == DequeAppend(dew_points, dp)
      avgs == temp_avg
      adj == adjust_y_axis_ranges(ylim, tss, temps, avgs, rhs, ahs,
                                  dps, time_range, now2)
  IN [result |-> IF adj.raised THEN "raised" ELSE "appended",
      t1 |-> current_time, t2 |-> now2, drew |-> ~adj.raised,
      timestamps |-> tss, temperatures |-> temps, temp_avg |-> avgs,
      rel_humidities |-> rhs, abs_humidities |-> ahs,
      dew_points |-> dps,
      line_data |-> SetData(tss, temps, avgs, rhs, ahs, dps),
      xlim |-> IF adj.raised THEN xlim
               ELSE SetXlim(current_time - time_range, current_time),
      ylim |-> adj.ylim]

\* Lines 104-137 of update_plot. current_time is the clock read of line
\* 104, now2 the one made inside adjust_y_axis_ranges.
Ingest(temp, rh, current_time, now2) ==
  LET ah == calculate_absolute_humidity(temp, rh)
      dp == calculate_dew_point(temp, rh)
      tss == DequeAppend(timestamps, current_time)
      temps == DequeAppend(temperatures, temp)
      rhs == DequeAppend(rel_humidities, rh)
      ahs == DequeAppend(abs_humidities, ah)
      dps == DequeAppend(dew_points, dp)
      avgs == DequeAppend(temp_avg,
                MovingAverage(temps, tss, temp, current_time))
      adj == adjust_y_axis_ranges(ylim, tss, temps, avgs, rhs, ahs,
                                  dps, time_range, now2)
  IN [result |-> IF adj.raised THEN "raised" ELSE "appended",
      t1 |-> current_time, t2 |-> now2, drew |-> ~adj.raised,
      timestamps |-> tss, temperatures |-> temps, temp_avg |-> avgs,
      rel_humidities |-> rhs, abs_humidities |-> ahs,
      dew_points |-> dps,
      line_data |-> SetData(tss, temps, avgs, rhs, ahs, dps),
      xlim |-> IF adj.raised THEN xlim
               ELSE SetXlim(current_time - time_range, current_time),
      ylim |-> adj.ylim]

\* No handler catches anything and sys.excepthook is left alone: PyQt5
\* (5.5 and later, the only ones that run this Python 3.6+ source) ends the
\* process with qFatal() when an exception leaves a slot.
AfterHandler(result, ret) == IF result = "raised" THEN "aborted" ELSE ret

\* a handler end that puts the selector's default range back
Finish_ResetsRange(o, raw, ret) ==
  /\ timestamps' = o.timestamps
  /\ temperatures' = o.temperatures
  /\ temp_avg' = o.temp_avg
  /\ rel_humidities' = o.rel_humidities
  /\ abs_humidities' = o.abs_humidities
  /\ dew_points' = o.dew_points
  /\ line_data' = o.line_data
  /\ xlim' = o.xlim
  /\ ylim' = o.ylim
  /\ pc' = AfterHandler(o.result, ret)
  /\ last' = [op |-> "update_plot", result |-> o.result, raw |-> raw,
              index |-> 0 - 1, t1 |-> o.t1, t2 |-> o.t2, drew |-> o.drew]
  /\ time_range' = TimeRange(4)
  /\ UNCHANGED <<timer_active, ser_open, calls>>

Finish(o, raw, ret) ==
  /\ timestamps' = o.timestamps
  /\ temperatures' = o.temperatures
  /\ temp_avg' = o.temp_avg
  /\ rel_humidities' = o.rel_humidities
  /\ abs_humidities' = o.abs_humidities
  /\ dew_points' = o.dew_points
  /\ line_data' = o.line_data
  /\ xlim' = o.xlim
  /\ ylim' = o.ylim
  /\ pc' = AfterHandler(o.result, ret)
  /\ last' = [op |-> "update_plot", result |-> o.result, raw |-> raw,
              index |-> 0 - 1, t1 |-> o.t1, t2 |-> o.t2, drew |-> o.drew]
  /\ UNCHANGED <<time_range, timer_active, ser_open, calls>>

\* What self.ser.in_waiting and readline() find on the port
Avail == {"none", "partial", "line"}

\* update_plot from readline() on.  raw is the line read; t1 is the clock
\* at line 104 and t1 + d the clock inside adjust_y_axis_ranges, both read
\* only when the record gets that far.
ReadAndPlot(ret, Lines, Instants, Drifts) ==
  \E raw \in Lines :
    \E p \in {Parse(raw)} :
      IF p.result = "skip" THEN Finish(Untouched("skip"), raw, ret)
      ELSE IF p.result = "raised"
             \/ calculate_dew_point_raises(p.temp, p.rh)
        THEN Finish(Untouched("raised"), raw, ret)
        ELSE \E t1 \in Instants, d \in Drifts :
               \E o \in {Ingest(p.temp, p.rh, t1, t1 + d)} :
                 Finish(o, raw, ret)

\* InteractivePlot.update_plot, the slot of self.timer.timeout
update_plot(Lines, Instants, Drifts) ==
  /\ timer_active
  /\ pc \in {"idle", "closing"}
  /\ IF ~ser_open
       THEN Finish(Untouched("raised"), <<>>, pc)
       ELSE \E avail \in Avail :
              IF avail = "none"
                THEN Finish(Untouched("nodata"), <<>>, pc)
              ELSE IF avail = "partial"
                THEN /\ pc' = "readline"
                     /\ last' = [op |-> "update_plot", result |-> "blocked",
                                 raw |-> <<>>, index |-> 0 - 1,
                                 t1 |-> NoTime, t2 |-> NoTime,
                                 drew |-> FALSE]
                     /\ UNCHANGED <<series, time_range, timer_active,
                                    ser_open, line_data, xlim, ylim, calls>>
                ELSE ReadAndPlot(pc, Lines, Instants, Drifts)

\* readline() was called with no timeout: it returns once the device sends
\* the rest of the line, and the tick blocked in it then runs to its end
readline_returns(Lines, Instants, Drifts) ==
  /\ pc = "readline"
  /\ ReadAndPlot("idle", Lines, Instants, Drifts)

\* InteractivePlot.update_time_range, the slot of currentIndexChanged
\* (emitted only when the selected item changes).  t1 is the clock at line
\* 190, t1 + d the clock inside adjust_y_axis_ranges.
update_time_range(Indices, Instants, Drifts) ==
  /\ pc = "idle"
  /\ \E index \in Indices, t1 \in Instants, d \in Drifts :
       /\ TimeRange(index) # time_range
       /\ \E adj \in {adjust_y_axis_ranges(ylim, timestamps, temperatures,
                       temp_avg, rel_humidities, abs_humidities, dew_points,
                       TimeRange(index), t1 + d)} :
          LET result == IF adj.raised THEN "raised" ELSE "selected"
          IN /\ time_range' = TimeRange(index)
             /\ xlim' = SetXlim(t1 - TimeRange(index), t1)
             /\ ylim' = adj.ylim
             /\ pc' = AfterHandler(result, "idle")
             /\ last' = [op |-> "update_time_range", result |-> result,
                         raw |-> <<>>, index |-> index, t1 |-> t1,
                         t2 |-> t1 + d, drew |-> ~adj.raised]
       /\ UNCHANGED <<series, timer_active, ser_open, line_data, calls>>

\* closeEvent without self.timer.stop()
closeEvent_calls_NoStop == <<"ser.close", "event.accept">>

\* the calls closeEvent makes, in order
closeEvent_calls == <<"timer.stop", "ser.close", "event.accept">>

\* InteractivePlot.closeEvent
closeEvent ==
  /\ pc = "idle"
  /\ calls' = calls \o closeEvent_calls
  /\ timer_active' = (timer_active /\ "timer.stop" \notin Range(closeEvent_calls))
  /\ ser_open' = (ser_open /\ "ser.close" \notin Range(closeEvent_calls))
  /\ pc' = "closing"
  /\ last' = [op |-> "closeEvent", result |-> "accepted", raw |-> <<>>,
              index |-> 0 - 1, t1 |-> NoTime, t2 |-> NoTime, drew |-> FALSE]
  /\ UNCHANGED <<series, time_range, line_data, xlim, ylim>>

\* app.exec_() returns after the last window closed; sys.exit ends the process
app_exit ==
  /\ pc = "closing"
  /\ pc' = "exited"
  /\ UNCHANGED <<series, time_range, timer_active, ser_open, line_data,
                 xlim, ylim, calls, last>>

\* the state InteractivePlot.__init__ leaves
Init ==
  /\ timestamps = <<>>
  /\ temperatures = <<>>
  /\ temp_avg = <<>>
  /\ rel_humidities = <<>>
  /\ abs_humidities = <<>>
  /\ dew_points = <<>>
  /\ time_range = TimeRange(4)
  /\ timer_active = TRUE
  /\ ser_open = TRUE
  /\ line_data = SetData(<<>>, <<>>, <<>>, <<>>, <<>>, <<>>)
  /\ xlim = [ax \in Axes |-> <<>>]
  /\ ylim = <<<<>>, <<>>, <<>>, <<>>>>
  /\ pc = "idle"
  /\ calls = <<>>
  /\ last = [op |-> "__init__", result |-> "constructed", raw |-> <<>>,
             index |-> 0 - 1, t1 |-> NoTime, t2 |-> NoTime, drew |-> FALSE]

\* -------------------------------------------------------- specifications
\* Every specification runs all five handlers; they differ in the inputs
\* the environment offers.
\*
\* Spec: every kind of record, three clock values 10 s apart (inside, on
\* and outside the 20 s averaging window, in any order: the wall clock is
\* naive local time and may step back), the selector moved from its
\* default "4 hours" to "1 hour".
IngestLines ==
  { <<"12:00:00", ",", "20", ",", "50", ",", "0", "\n">>,
    <<"12:00:00", ",", "22", ",", "50", ",", "0", "\n">> }
    \cup LowRhLines \cup NonNumericLines \cup WrongCountLines
    \cup UndecodableLines
IngestInstants == {0, 10, 20}
IngestDrifts == {0}
IngestIndices == {3}

Next ==
  \/ update_plot(IngestLines, IngestInstants, IngestDrifts)
  \/ readline_returns(IngestLines, IngestInstants, IngestDrifts)
  \/ update_time_range(IngestIndices, IngestInstants, IngestDrifts)
  \/ closeEvent
  \/ app_exit

Spec == Init /\ [][Next]_vars

\* SpecView: all five selector items, two records, the clock at two values
\* 60 s apart and up to a second later inside adjust_y_axis_ranges, so that
\* a buffered point can lie on, inside and outside the 1-minute window.
ViewLines ==
  { <<"12:00:00", ",", "20", ",", "50", ",", "0", "\n">> }
    \cup HighRhLines
    \cup { <<"12:00:00", ",", "20", ",", "50", "\n">> }
ViewInstants == {20, 80}
ViewDrifts == {0, 1}
ViewIndices == 0..4

NextView ==
  \/ update_plot(ViewLines, ViewInstants, ViewDrifts)
  \/ readline_returns(ViewLines, ViewInstants, ViewDrifts)
  \/ update_time_range(ViewIndices, ViewInstants, ViewDrifts)
  \/ closeEvent
  \/ app_exit

SpecView == Init /\ [][NextView]_vars

\* SpecLive: the inputs of Spec, with the scheduling the code sets up
\* itself: the QTimer started at line 90 keeps firing update_plot while it
\* is active and the event loop is free, and app.exec_() returns once the
\* window is closed.  Nothing in the source bounds readline(): the port is
\* opened without a timeout, so its return is left to the device.
SpecLive ==
  /\ Init
  /\ [][Next]_vars
  /\ WF_vars(update_plot(IngestLines, IngestInstants, IngestDrifts))
  /\ WF_vars(app_exit)

\* SpecRecord: well-formed records that differ in their first field or in
\* their temperature, the clock at two values.
RecordLines == GoodLines
RecordInstants == {0, 20}
RecordDrifts == {0}
RecordIndices == {3}

NextRecord ==
  \/ update_plot(RecordLines, RecordInstants, RecordDrifts)
  \/ readline_returns(RecordLines, RecordInstants, RecordDrifts)
  \/ update_time_range(RecordIndices, RecordInstants, RecordDrifts)
  \/ closeEvent
  \/ app_exit

SpecRecord == Init /\ [][NextRecord]_vars

\* ================================================================ claims
Appended == last.op = "update_plot" /\ last.result = "appended"

\* the last n items of s
KeepLast(s, n) == IF Len(s) <= n THEN s ELSE SubSeq(s, Len(s) - n + 1, Len(s))

\* q' is q with one item appended and, past max_points, the oldest dropped
FifoStep(q, r) ==
  /\ r # <<>>
  /\ r = KeepLast(Append(q, r[Len(r)]), max_points)

\* C1: no series ever holds more than max_points entries, and every
\* successful tick turns each series into its previous contents plus the
\* new entry at the end, minus the oldest entry when that exceeds
\* max_points; so the buffer is always the most recent min(count,
\* max_points) appended entries in append order.
C1_FifoEviction ==
  /\ [](\A i \in 1..6 : Len(series[i]) <= max_points)
  /\ [][Appended' =>
          /\ FifoStep(timestamps, timestamps')
          /\ FifoStep(temperatures, temperatures')
          /\ FifoStep(temp_avg, temp_avg')
          /\ FifoStep(rel_humidities, rel_humidities')
          /\ FifoStep(abs_humidities, abs_humidities')
          /\ FifoStep(dew_points, dew_points')
          /\ timestamps'[Len(timestamps')] = last'.t1]_vars

\* A full buffer whose first average (21) counts a 20-degree reading that
\* is no longer buffered: an eviction has happened.
C1_Witness ==
  /\ Appended
  /\ Len(timestamps) = max_points
  /\ temperatures = <<22, 22>>
  /\ temp_avg[1] = [n |-> 21, d |-> 1]

\* C2: a tick whose line has a field count other than 4, or a non-numeric
\* temperature or humidity field, leaves all six series as they were.
C2_MalformedLeavesSeries ==
  [][(last'.op = "update_plot"
        /\ last'.raw \in NonNumericLines \cup WrongCountLines)
       => UNCHANGED series]_vars

C2_Witness ==
  /\ last.op = "update_plot"
  /\ last.raw \in NonNumericLines
  /\ Len(timestamps) = max_points

\* C3: a tick on a malformed record (wrong field count, non-numeric field,
\* undecodable bytes) ends as a skip with the loop back in Idle.
C3_MalformedIsSkipped ==
  (last.op = "update_plot"
     /\ last.raw \in NonNumericLines \cup WrongCountLines
                       \cup UndecodableLines)
    => (last.result = "skip" /\ pc = "idle")

\* C6: a tick on a well-formed record with relative humidity <= 0 appends
\* the reading and leaves the loop alive.
C6_LowRhIsAppended ==
  (last.op = "update_plot" /\ last.raw \in LowRhLines)
    => (Appended /\ pc = "idle")

\* indices of the buffered entries later than (t - 20 s)
InWindow(t) ==
  {i \in 1..Len(timestamps) : timestamps[i] > t - twenty_sec}

\* C7: when no buffered entry other than the newest has a timestamp later
\* than (its timestamp - 20 s), the newest entry's moving average is its
\* temperature.
C7_AverageFallsBackToTemperature ==
  timestamps # <<>> =>
    LET n == Len(timestamps) IN
      (InWindow(timestamps[n]) \ {n} = {})
        => temp_avg[n] = [n |-> temperatures[n], d |-> 1]

\* an older reading exactly 20 s back, a different temperature
C7_Witness ==
  /\ Appended
  /\ timestamps = <<0, 20>>
  /\ temperatures = <<22, 20>>
  /\ temp_avg[2] = [n |-> 20, d |-> 1]

RECURSIVE TempSum(_)
TempSum(I) ==
  IF I = {} THEN 0
  ELSE LET i == CHOOSE j \in I : TRUE
       IN temperatures[i] + TempSum(I \ {i})

\* C8: the newest entry's moving average times the number of buffered
\* entries (itself included) later than (its timestamp - 20 s) equals the
\* sum of their temperatures.
C8_AverageIsWindowMean ==
  timestamps # <<>> =>
    LET n == Len(timestamps)
        I == InWindow(timestamps[n])
    IN /\ n \in I
       /\ temp_avg[n].d > 0
       /\ temp_avg[n].n * Cardinality(I) = temp_avg[n].d * TempSum(I)

\* two readings 10 s apart with different temperatures
C8_Witness ==
  /\ Appended
  /\ timestamps = <<10, 20>>
  /\ temperatures = <<20, 22>>
  /\ temp_avg[2] = [n |-> 21, d |-> 1]

\* C9: the buffered timestamps are non-decreasing in buffer order.
C9_TimestampsNonDecreasing ==
  \A i \in 1..Len(timestamps), j \in 1..Len(timestamps) :
    i < j => timestamps[i] <= timestamps[j]

Count(s, x) == Cardinality({i \in 1..Len(s) : s[i] = x})

\* C10: the transport is never closed while the timer runs; closeEvent
\* stops the timer before it closes the transport and closes it once; no
\* tick runs once the transport is closed.
C10_Shutdown ==
  /\ ~ser_open => ~timer_active
  /\ \A i \in 1..Len(calls) :
       calls[i] = "ser.close" => \E j \in 1..(i - 1) : calls[j] = "timer.stop"
  /\ Count(calls, "ser.close") = (IF ser_open THEN 0 ELSE 1)
  /\ pc \in {"closing", "exited"} => ~ser_open
  /\ ~ser_open => last.op # "update_plot"

\* the window was closed after readings had been buffered
C10_Witness ==
  /\ pc = "exited"
  /\ ~ser_open
  /\ timestamps # <<>>

\* ---------------------------------------------------------------- views
Selected == last.op = "update_time_range" /\ last.result = "selected"

\* what one plot line was given: its (timestamp, value) points
Points(line) ==
  {<<line[1][i], line[2][i]>> :
     i \in 1..Min2(Len(line[1]), Len(line[2]))}

PlotLines == {"temp_line", "temp_avg_line", "rh_line", "ah_line", "dp_line"}

\* every point in the plot lines is at or after (now - time_range) and
\* every buffered point at or after it is in the plot lines
OnlyWindowHanded(now) ==
  /\ \A l \in PlotLines : \A pt \in Points(line_data[l]) :
       pt[1] >= now - time_range
  /\ \A i \in 1..Len(timestamps) :
       timestamps[i] >= now - time_range =>
         /\ <<timestamps[i], temperatures[i]>> \in Points(line_data.temp_line)
         /\ <<timestamps[i], temp_avg[i]>> \in Points(line_data.temp_avg_line)
         /\ <<timestamps[i], rel_humidities[i]>> \in Points(line_data.rh_line)
         /\ <<timestamps[i], abs_humidities[i]>> \in Points(line_data.ah_line)
         /\ <<timestamps[i], dew_points[i]>> \in Points(line_data.dp_line)

Qualifying(now) ==
  {i \in 1..Len(timestamps) : timestamps[i] >= now - time_range}

Duration == <<60, 300, 1200, 3600, 14400>>

\* C5: a selection change to item k leaves, at its own end and with no
\* tick, the x-limits of all four axes at [now - D, now], D the duration
\* of item k and now the clock the handler read, and has redrawn.
C5_SelectionRedrawsAtOnce ==
  last.op = "update_time_range" =>
    /\ time_range = Duration[last.index + 1]
    /\ \A ax \in Axes :
         xlim[ax] = <<last.t1 - Duration[last.index + 1], last.t1>>
    /\ last.drew
    /\ pc = "idle"

\* 5 minutes picked while readings are buffered
C5_Witness ==
  /\ Selected
  /\ last.index = 1
  /\ timestamps # <<>>
  /\ xlim[1] = <<80 - 300, 80>>

\* ------------------------------------------------------------- lifecycle
\* C11: whenever the process has ended, by the window being closed or by
\* an error raised inside a handler, the transport has been closed.
C11_TransportClosedOnEveryExit ==
  pc \in {"exited", "aborted"} => ~ser_open

\* C12: a tick that has entered readline() eventually leaves it.
C12_TickReturns == (pc = "readline") ~> (pc # "readline")

\* C13: the selected duration is 4 hours at the start, is always one of
\* the five selector durations, and changes only in a step of
\* update_time_range; no step of a tick, whatever its outcome, changes it.
C13_DurationOnlyBySelection ==
  /\ time_range = 4 * 60 * 60
  /\ [](\E k \in 1..Len(Duration) : time_range = Duration[k])
  /\ [][time_range' # time_range => last'.op = "update_time_range"]_vars
  /\ [][last'.op = "update_plot" => time_range' = time_range]_vars

\* a successful tick that ran after "Last 5 minutes" was picked
C13_Witness ==
  /\ Appended
  /\ time_range = 5 * 60
  /\ pc = "idle"

\* ---------------------------------------------------------------- ticks
\* the newest item of a series
Newest(q) == q[Len(q)]

\* C14: a successful tick adds exactly one entry to each series; the new
\* entry's temperature and relative humidity are the numbers written in
\* fields 2 and 3 of the record, its absolute humidity and dew point are
\* the two physics functions of those numbers, and its timestamp is the
\* clock the tick read, whatever the record's field 1 says.
C14_SuccessfulTickAppendsReading ==
  [][Appended' =>
       LET temp == FloatValue[last'.raw[3]]
           rh == FloatValue[last'.raw[5]]
       IN /\ FifoStep(timestamps, timestamps')
          /\ FifoStep(temperatures, temperatures')
          /\ FifoStep(temp_avg, temp_avg')
          /\ FifoStep(rel_humidities, rel_humidities')
          /\ FifoStep(abs_humidities, abs_humidities')
          /\ FifoStep(dew_points, dew_points')
          /\ Newest(temperatures') = temp
          /\ Newest(rel_humidities') = rh
          /\ Newest(abs_humidities') = <<"absolute_humidity", temp, rh>>
          /\ Newest(dew_points') = <<"dew_point", temp, rh>>
          /\ Newest(timestamps') = last'.t1
          /\ last'.t1 \in RecordInstants]_vars

\* the same clock value stamped on two records whose first fields differ
C14_Witness ==
  /\ Appended
  /\ Len(timestamps) = 2
  /\ timestamps = <<20, 20>>
  /\ last.raw[1] = "12:00:01"
  /\ temperatures[2] = 20
  /\ rel_humidities[2] = 50

NoData == last.op = "update_plot" /\ last.result = "nodata"

\* C15: a tick that finds in_waiting = 0 reads no line and leaves the six
\* series, the selected duration, the x- and y-limits, the data of the
\* plot lines, the timer, the port and the position of the GUI thread as
\* they were.
C15_NoDataTickChangesNothing ==
  [][NoData' =>
       /\ last'.raw = <<>>
       /\ UNCHANGED <<series, time_range, line_data, xlim, ylim,
                      timer_active, ser_open, calls, pc>>]_vars

\* a no-data tick with a full buffer and a changed selection behind it
C15_Witness ==
  /\ NoData
  /\ Len(timestamps) = max_points
  /\ time_range = 60 * 60
  /\ xlim[1] # <<>>

\* ---------------------------------------------------------------- ranges
\* indices of the items of tss at or after (now - range)
QualifyingIn(tss, range, now) ==
  {i \in 1..Len(tss) : tss[i] >= now - range}

\* C16: when a tick or a selection change recomputes the y-ranges and no
\* buffered point is at or after (now - D), now being the clock read inside
\* adjust_y_axis_ranges, all four y-limits stay as they were and the
\* handler ends normally, having redrawn, with the loop back in Idle.
C16_EmptyWindowKeepsRanges ==
  [][(/\ last'.op \in {"update_plot", "update_time_range"}
      /\ last'.t2 # NoTime
      /\ QualifyingIn(timestamps', time_range', last'.t2) = {})
       => /\ ylim' = ylim
          /\ last'.result \in {"appended", "selected"}
          /\ last'.drew
          /\ pc' = "idle"]_vars

\* "Last 1 minute" picked 61 s after the last reading, limits already set
C16_Witness ==
  /\ Selected
  /\ time_range = 60
  /\ timestamps = <<20, 20>>
  /\ last.t2 = 81
  /\ ylim[1] # <<>>
  /\ ylim[2] # <<>>

\* C17: after a successful tick or a selection change, with [T - D, T] the
\* x-range that update set, the y-ranges it left are those of exactly the
\* buffered points with timestamp >= T - D (seen here on the absolute
\* humidity and dew point axes, whose limits record the values they were
\* taken over).
C17_SameReferenceInstant ==
  (Appended \/ Selected) =>
    LET T == xlim[1][2]
        I == QualifyingIn(timestamps, time_range, T)
    IN /\ xlim[1] = <<T - time_range, T>>
       /\ I # {} =>
            /\ ylim[3][1][2] = {abs_humidities[i] : i \in I}
            /\ ylim[4][1][2] = {dew_points[i] : i \in I}

\* x = y as fractions
FracEq(x, y) == x.n * y.d = y.n * x.d

\* x <= y as fractions (denominators are positive)
FracLeq(x, y) == x.n * y.d <= y.n * x.d

\* the visible temperatures and moving averages, as fractions
VisibleTempValues(I) ==
  {[n |-> temperatures[i], d |-> 1] : i \in I} \cup {temp_avg[i] : i \in I}

\* C18: after a successful tick or a selection change that finds a buffered
\* point at or after (now - D), the temperature axis is [m - 1, M + 1] with
\* m the least and M the greatest of the visible temperatures and visible
\* moving averages taken together.
C18_TemperatureAxis ==
  (Appended \/ Selected) =>
    LET I == Qualifying(last.t2)
        V == VisibleTempValues(I)
    IN I # {} =>
         /\ Len(ylim[1]) = 2
         /\ \E m \in V, M \in V :
              /\ \A v \in V : FracLeq(m, v) /\ FracLeq(v, M)
              /\ FracEq(ylim[1][1], [n |-> m.n - m.d, d |-> m.d])
              /\ FracEq(ylim[1][2], [n |-> M.n + M.d, d |-> M.d])

\* both visible readings are 22 degrees and the older one's moving average
\* is 21: the lower limit comes from the moving average
C18_Witness ==
  /\ Appended
  /\ Qualifying(last.t2) = {1, 2}
  /\ temperatures = <<22, 22>>
  /\ temp_avg[1] = [n |-> 21, d |-> 1]
  /\ ylim[1] = <<[n |-> 20, d |-> 1], [n |-> 23, d |-> 1]>>

\* C19: the six series always have the same length, after a tick that
\* appended, one that skipped its record, one that found no data and one
\* that ended in an error alike.
C19_SeriesSameLength ==
  \A i \in 1..6, j \in 1..6 : Len(series[i]) = Len(series[j])

\* a tick that ended in an error after readings had been buffered
C19_Witness ==
  /\ last.op = "update_plot"
  /\ last.result = "raised"
  /\ pc = "aborted"
  /\ Len(timestamps) = 1
  /\ Len(temp_avg) = 1

\* C20: whenever the humidity axis has been given a range, its lower bound
\* is at most its upper bound.
C20_HumidityAxisOrdered ==
  ylim[2] # <<>> => ylim[2][1] <= ylim[2][2]

====
